---- MODULE Spec2Model ----
(***************************************************************************)
(* Model of StudentPerformanceAnalyzer (src/src/analyzer.py).              *)
(*                                                                         *)
(* Representation.                                                         *)
(*  - A Python str is a sequence of one-character strings.                 *)
(*  - A cell that may be missing is a record [isna, str]: isna models      *)
(*    pd.isna(cell) (None / NaN), str is the text otherwise.               *)
(*  - A number is an integer count of hundredths ("centi"): 91.0 is 9100.  *)
(*    float64 arithmetic is modelled by exact rational arithmetic on these *)
(*    integers; round(x, 2) is round-half-to-even of the exact value (the  *)
(*    rint of numpy).  Binary rounding error of float64 is not modelled;   *)
(*    on the input sets below the exact results are those of float64.      *)
(*  - Score text is over the characters 0-9, '.', '-', '+', ' ', ',' and   *)
(*    'x' (any character float() rejects); 'nan', 'inf', exponents and     *)
(*    underscores are not in the alphabet.                                 *)
(*  - The metrics dict is a sequence of StudentMetrics records in          *)
(*    insertion order, with pairwise distinct student_id.                  *)
(*  - op, arg, ret record the last call on the analyzer: its name, its     *)
(*    argument and its outcome (a returned value or a raised exception);   *)
(*    metrics_before is self.metrics as it was when that call began.       *)
(***************************************************************************)
EXTENDS Integers, Sequences, FiniteSets, TLC

VARIABLES data, metrics, op, arg, ret, metrics_before

vars == <<data, metrics, op, arg, ret, metrics_before>>

(***************************************************************************)
(* Bounds of the model.                                                    *)
(***************************************************************************)
MaxTokens == 4
MaxRows == 3

(***************************************************************************)
(* Generic helpers.                                                        *)
(***************************************************************************)
RECURSIVE SumSeq(_)
SumSeq(s) == IF s = <<>> THEN 0 ELSE Head(s) + SumSeq(Tail(s))

SeqsUpTo(S, n) == UNION {[1..k -> S] : k \in 0..n}

Abs(x) == IF x < 0 THEN -x ELSE x

(***************************************************************************)
(* Outcomes of a call.                                                     *)
(***************************************************************************)
Returned(v) == [raised |-> "", val |-> v]
Raised(msg) == [raised |-> msg, val |-> <<>>]
NoDataLoaded == "ValueError: No data loaded. Call load_data() first."

(***************************************************************************)
(* Text: str.split(','), str.strip(), float(str).                          *)
(***************************************************************************)
DigitChars == {"0", "1", "2", "3", "4", "5", "6", "7", "8", "9"}

DigitVal(c) ==
    CASE c = "0" -> 0 [] c = "1" -> 1 [] c = "2" -> 2 [] c = "3" -> 3
      [] c = "4" -> 4 [] c = "5" -> 5 [] c = "6" -> 6 [] c = "7" -> 7
      [] c = "8" -> 8 [] c = "9" -> 9

IsSpace(c) == c = " "

\* str.split(','): the pieces between commas; "" gives [""], "a," gives ["a", ""].
RECURSIVE SplitFrom(_, _, _, _)
SplitFrom(s, i, cur, acc) ==
    IF i > Len(s) THEN Append(acc, cur)
    ELSE IF s[i] = "," THEN SplitFrom(s, i + 1, <<>>, Append(acc, cur))
    ELSE SplitFrom(s, i + 1, Append(cur, s[i]), acc)

Split(s) == SplitFrom(s, 1, <<>>, <<>>)

\* str.strip(): leading and trailing whitespace removed.
RECURSIVE LStrip(_)
LStrip(s) == IF s # <<>> /\ IsSpace(Head(s)) THEN LStrip(Tail(s)) ELSE s

RECURSIVE RStrip(_)
RStrip(s) ==
    IF s # <<>> /\ IsSpace(s[Len(s)]) THEN RStrip(SubSeq(s, 1, Len(s) - 1)) ELSE s

Strip(s) == RStrip(LStrip(s))

\* Value of a run of decimal digits.
RECURSIVE DigitsVal(_)
DigitsVal(s) ==
    IF s = <<>> THEN 0 ELSE 10 * DigitsVal(SubSeq(s, 1, Len(s) - 1)) + DigitVal(s[Len(s)])

AllDigits(s) == \A i \in 1..Len(s) : s[i] \in DigitChars

DotPositions(s) == {i \in 1..Len(s) : s[i] = "."}

\* The unsigned decimal literals float() accepts over the model's alphabet:
\* digits, digits '.', '.' digits, digits '.' digits (not '.' alone, not '').
IsUnsignedLiteral(s) ==
    IF DotPositions(s) = {} THEN s # <<>> /\ AllDigits(s)
    ELSE /\ Cardinality(DotPositions(s)) = 1
         /\ LET d == CHOOSE i \in DotPositions(s) : TRUE
                ip == SubSeq(s, 1, d - 1)
                fp == SubSeq(s, d + 1, Len(s))
            IN  AllDigits(ip) /\ AllDigits(fp) /\ (ip # <<>> \/ fp # <<>>)

\* Hundredths denoted by an unsigned literal with at most two fraction digits.
UnsignedCenti(s) ==
    IF DotPositions(s) = {} THEN 100 * DigitsVal(s)
    ELSE LET d == CHOOSE i \in DotPositions(s) : TRUE
             ip == SubSeq(s, 1, d - 1)
             fp == SubSeq(s, d + 1, Len(s))
         IN  100 * DigitsVal(ip)
               + (IF Len(fp) = 0 THEN 0
                  ELSE IF Len(fp) = 1 THEN 10 * DigitsVal(fp)
                  ELSE DigitsVal(SubSeq(fp, 1, 2)))

HasSign(s) == s # <<>> /\ Head(s) \in {"-", "+"}

\* float(s): ok = FALSE is ValueError; surrounding whitespace is ignored.
ParseFloat(s) ==
    LET t == Strip(s)
        u == IF HasSign(t) THEN Tail(t) ELSE t
    IN  IF IsUnsignedLiteral(u)
        THEN [ok |-> TRUE,
              val |-> IF HasSign(t) /\ Head(t) = "-" THEN -UnsignedCenti(u)
                      ELSE UnsignedCenti(u)]
        ELSE [ok |-> FALSE, val |-> 0]

\* [float(s.strip()) for s in str(scores_str).split(',')]
ParseScores(str) ==
    LET toks == Split(str)
        parsed == [i \in 1..Len(toks) |-> ParseFloat(Strip(toks[i]))]
    IN  [ok |-> \A i \in 1..Len(toks) : parsed[i].ok,
         scores |-> [i \in 1..Len(toks) |-> parsed[i].val]]

(***************************************************************************)
(* Arithmetic on hundredths.                                               *)
(***************************************************************************)
\* num/den (den > 0) rounded to the nearest integer, ties to the even one.
RoundHalfEven(num, den) ==
    LET q == (2 * num + den) \div (2 * den)
        tie == (2 * num + den) % (2 * den) = 0
    IN  IF tie /\ q % 2 = 1 THEN q - 1 ELSE q

\* round(np.mean(scores), 2) for scores in hundredths, in hundredths.
\* Mutant: the mean truncated to hundredths instead of rounded.
MeanTruncated(scores) == SumSeq(scores) \div Len(scores)

MeanRounded(scores) == RoundHalfEven(SumSeq(scores), Len(scores))

(***************************************************************************)
(* Program constants.                                                      *)
(***************************************************************************)
TrendThreshold == 5
HighRiskThreshold == 40
MediumRiskThreshold == 20
\* The weights 0.4, 0.3, 0.3 in tenths.
ScoreWeight == 4
AttendanceWeight == 3
CompletionWeight == 3
DefaultAttendance == 0
DefaultCompletion == 100

Centi(n) == 100 * n

(***************************************************************************)
(* Cells of a row.                                                         *)
(***************************************************************************)
NaNCell == [isna |-> TRUE, str |-> <<>>]
StrCell(s) == [isna |-> FALSE, str |-> s]
EmptyCell == StrCell(<<>>)

(***************************************************************************)
(* calculate_average_score                                                 *)
(***************************************************************************)
\* Mutant: tokens that are not numbers are skipped instead of voiding the series.
CalculateAverageScoreSkipBad(cell) ==
    IF cell.isna \/ cell.str = <<>> THEN 0
    ELSE LET toks == Split(cell.str)
             good == SelectSeq(toks, LAMBDA t : ParseFloat(t).ok)
         IN  IF good = <<>> THEN 0
             ELSE RoundHalfEven(SumSeq([i \in 1..Len(good) |-> ParseFloat(good[i]).val]),
                                Len(good))

CalculateAverageScore(cell) ==
    IF cell.isna \/ cell.str = <<>> THEN 0
    ELSE LET p == ParseScores(cell.str)
         IN  IF p.ok THEN MeanRounded(p.scores) ELSE 0

(***************************************************************************)
(* calculate_trend                                                         *)
(***************************************************************************)
\* Mutant: the extra element of an odd-length series goes to the first half.
MidCeil(scores) == (Len(scores) + 1) \div 2

Mid(scores) == Len(scores) \div 2
FirstHalf(scores) == SubSeq(scores, 1, Mid(scores))
SecondHalf(scores) == SubSeq(scores, Mid(scores) + 1, Len(scores))

\* diff = mean(second half) - mean(first half) as the fraction DiffNum / DiffDen
\* of hundredths; DiffDen > 0 when both halves are non-empty.
DiffNum(scores) ==
    SumSeq(SecondHalf(scores)) * Len(FirstHalf(scores))
      - SumSeq(FirstHalf(scores)) * Len(SecondHalf(scores))
DiffDen(scores) == Len(FirstHalf(scores)) * Len(SecondHalf(scores))

\* Mutant: the size of the difference is tested, not its sign.
TrendOfMagnitude(scores) ==
    IF Abs(DiffNum(scores)) > Centi(TrendThreshold) * DiffDen(scores) THEN "improving"
    ELSE "stable"

TrendOf(scores) ==
    IF DiffNum(scores) > Centi(TrendThreshold) * DiffDen(scores) THEN "improving"
    ELSE IF DiffNum(scores) < -Centi(TrendThreshold) * DiffDen(scores) THEN "declining"
    ELSE "stable"

\* Mutant: tokens that are not numbers are skipped instead of voiding the series.
CalculateTrendSkipBad(cell) ==
    IF cell.isna \/ cell.str = <<>> THEN "stable"
    ELSE LET toks == Split(cell.str)
             good == SelectSeq(toks, LAMBDA t : ParseFloat(t).ok)
             scores == [i \in 1..Len(good) |-> ParseFloat(good[i]).val]
         IN  IF Len(scores) < 2 THEN "stable" ELSE TrendOf(scores)

CalculateTrend(cell) ==
    IF cell.isna \/ cell.str = <<>> THEN "stable"
    ELSE LET p == ParseScores(cell.str)
         IN  IF ~p.ok THEN "stable"
             ELSE IF Len(p.scores) < 2 THEN "stable"
             ELSE TrendOf(p.scores)

(***************************************************************************)
(* determine_risk_level                                                    *)
(***************************************************************************)
\* risk_score in thousandths: hundredths times weights in tenths.
RiskScore(avg_score, attendance, completion) ==
    (Centi(100) - avg_score) * ScoreWeight
      + (Centi(100) - attendance) * AttendanceWeight
      + (Centi(100) - completion) * CompletionWeight

\* Mutant: both thresholds exclusive.
DetermineRiskLevelExclusive(avg_score, attendance, completion) ==
    IF RiskScore(avg_score, attendance, completion) > 1000 * HighRiskThreshold
    THEN "high"
    ELSE IF RiskScore(avg_score, attendance, completion) > 1000 * MediumRiskThreshold
    THEN "medium"
    ELSE "low"

\* Mutant: the medium threshold already makes the level high.
DetermineRiskLevelLowBar(avg_score, attendance, completion) ==
    IF RiskScore(avg_score, attendance, completion) >= 1000 * MediumRiskThreshold
    THEN "high"
    ELSE "low"

\* Mutant: each input is clamped to [0, 100] before it is weighted.
DetermineRiskLevelClamped(avg_score, attendance, completion) ==
    LET Clamp(x) == IF x < 0 THEN 0 ELSE IF x > Centi(100) THEN Centi(100) ELSE x
        risk_score == RiskScore(Clamp(avg_score), Clamp(attendance), Clamp(completion))
    IN  IF risk_score >= 1000 * HighRiskThreshold THEN "high"
        ELSE IF risk_score >= 1000 * MediumRiskThreshold THEN "medium"
        ELSE "low"

DetermineRiskLevel(avg_score, attendance, completion) ==
    IF RiskScore(avg_score, attendance, completion) >= 1000 * HighRiskThreshold
    THEN "high"
    ELSE IF RiskScore(avg_score, attendance, completion) >= 1000 * MediumRiskThreshold
    THEN "medium"
    ELSE "low"

(***************************************************************************)
(* analyze_student                                                         *)
(***************************************************************************)
\* row.get(key, default)
Get(row, key, default) == IF key \in DOMAIN row THEN row[key] ELSE default

\* A student_id cell is an int or a str.
IntId(n) == [kind |-> "int", int |-> n, str |-> <<>>]
StrId(s) == [kind |-> "str", int |-> 0, str |-> s]

DigitChar(d) ==
    CASE d = 0 -> "0" [] d = 1 -> "1" [] d = 2 -> "2" [] d = 3 -> "3"
      [] d = 4 -> "4" [] d = 5 -> "5" [] d = 6 -> "6" [] d = 7 -> "7"
      [] d = 8 -> "8" [] d = 9 -> "9"

RECURSIVE NatToStr(_)
NatToStr(n) ==
    IF n < 10 THEN <<DigitChar(n)>> ELSE Append(NatToStr(n \div 10), DigitChar(n % 10))

\* str(row['student_id'])
PyStr(id) ==
    IF id.kind = "str" THEN id.str
    ELSE IF id.int < 0 THEN <<"-">> \o NatToStr(-id.int)
    ELSE NatToStr(id.int)

\* Mutant: the trend is taken from the quiz series.
AnalyzeStudentQuizTrend(row) ==
    LET avg_assignment == CalculateAverageScore(Get(row, "assignment_scores", EmptyCell))
        avg_quiz == CalculateAverageScore(Get(row, "quiz_scores", EmptyCell))
        average_score == RoundHalfEven(avg_assignment + avg_quiz, 2)
        attendance == Get(row, "attendance", Centi(DefaultAttendance))
        completion == Get(row, "completion_rate", Centi(DefaultCompletion))
    IN  [student_id |-> PyStr(row["student_id"]),
         average_score |-> average_score,
         attendance_rate |-> attendance,
         assignment_completion |-> completion,
         trend |-> CalculateTrend(Get(row, "quiz_scores", EmptyCell)),
         risk_level |-> DetermineRiskLevel(average_score, attendance, completion)]

\* Mutant: "row.get('completion_rate') or 100", a completion of 0 is defaulted.
AnalyzeStudentFalsyCompletion(row) ==
    LET avg_assignment == CalculateAverageScore(Get(row, "assignment_scores", EmptyCell))
        avg_quiz == CalculateAverageScore(Get(row, "quiz_scores", EmptyCell))
        average_score == RoundHalfEven(avg_assignment + avg_quiz, 2)
        attendance == Get(row, "attendance", Centi(DefaultAttendance))
        completion == IF "completion_rate" \in DOMAIN row /\ row["completion_rate"] # 0
                      THEN row["completion_rate"]
                      ELSE Centi(DefaultCompletion)
    IN  [student_id |-> PyStr(row["student_id"]),
         average_score |-> average_score,
         attendance_rate |-> attendance,
         assignment_completion |-> completion,
         trend |-> CalculateTrend(Get(row, "assignment_scores", EmptyCell)),
         risk_level |-> DetermineRiskLevel(average_score, attendance, completion)]

AnalyzeStudent(row) ==
    LET avg_assignment == CalculateAverageScore(Get(row, "assignment_scores", EmptyCell))
        avg_quiz == CalculateAverageScore(Get(row, "quiz_scores", EmptyCell))
        average_score == RoundHalfEven(avg_assignment + avg_quiz, 2)
        attendance == Get(row, "attendance", Centi(DefaultAttendance))
        completion == Get(row, "completion_rate", Centi(DefaultCompletion))
    IN  [student_id |-> PyStr(row["student_id"]),
         average_score |-> average_score,
         attendance_rate |-> attendance,
         assignment_completion |-> completion,
         trend |-> CalculateTrend(Get(row, "assignment_scores", EmptyCell)),
         risk_level |-> DetermineRiskLevel(average_score, attendance, completion)]

(***************************************************************************)
(* The metrics dict: StudentMetrics records in insertion order.            *)
(***************************************************************************)
Keys(m) == {m[i].student_id : i \in 1..Len(m)}

\* Mutant: an existing key is deleted and inserted again, at the end.
DictSetMoveToEnd(m, sm) ==
    Append(SelectSeq(m, LAMBDA x : x.student_id # sm.student_id), sm)

\* self.metrics[sm.student_id] = sm: an existing key keeps its position.
DictSet(m, sm) ==
    IF sm.student_id \in Keys(m)
    THEN [i \in 1..Len(m) |-> IF m[i].student_id = sm.student_id THEN sm ELSE m[i]]
    ELSE Append(m, sm)

\* self.metrics[student_id]
DictGet(m, id) == m[CHOOSE i \in 1..Len(m) : m[i].student_id = id]

\* The loop of analyze_all_students over rows i, i+1, ... starting from dict m.
RECURSIVE AnalyzeRows(_, _, _)
AnalyzeRows(rows, i, m) ==
    IF i > Len(rows) THEN m
    ELSE AnalyzeRows(rows, i + 1, DictSet(m, AnalyzeStudent(rows[i])))

NoneData == [is_none |-> TRUE, columns |-> {}, rows |-> <<>>]
Loaded(df) == [is_none |-> FALSE, columns |-> df.columns, rows |-> df.rows]

\* Mutant: self.metrics is not emptied before the loop.
AnalyzedMetricsNoReset(d) == AnalyzeRows(d.rows, 1, metrics)

\* Mutant: the entries of a run are added after those already held.
AnalyzedMetricsAppended(d) == metrics \o AnalyzeRows(d.rows, 1, <<>>)

\* self.metrics after a successful analyze_all_students on the loaded data.
AnalyzedMetrics(d) == AnalyzeRows(d.rows, 1, <<>>)

\* [m for m in self.metrics.values() if m.risk_level == risk_level]
FilterRisk(m, level) == SelectSeq(m, LAMBDA sm : sm.risk_level = level)

(***************************************************************************)
(* get_statistics                                                          *)
(***************************************************************************)
Column(m, field) == [i \in 1..Len(m) |-> m[i][field]]

\* Mutant: "counts[key] = 1" for "counts[key] += 1".
CountWherePresent(m, field, value) ==
    IF \E i \in 1..Len(m) : m[i][field] = value THEN 1 ELSE 0

CountWhere(m, field, value) == Cardinality({i \in 1..Len(m) : m[i][field] = value})

RECURSIVE ISqrtIn(_, _, _)
ISqrtIn(n, lo, hi) ==
    IF lo = hi THEN lo
    ELSE LET mid == (lo + hi + 1) \div 2
         IN  IF mid * mid <= n THEN ISqrtIn(n, mid, hi) ELSE ISqrtIn(n, lo, mid - 1)

\* floor(sqrt(n)) for 0 <= n < 2^31
ISqrt(n) == ISqrtIn(n, 0, 46340)

\* n^2 times the population variance of xs: the sum over pairs i < j of
\* (xs[i] - xs[j])^2, equal to n * sum(x^2) - sum(x)^2.
PairSquares(xs) ==
    LET pairs == {p \in (1..Len(xs)) \X (1..Len(xs)) : p[1] < p[2]}
        sq[S \in SUBSET pairs] ==
            IF S = {} THEN 0
            ELSE LET p == CHOOSE q \in S : TRUE
                 IN  (xs[p[1]] - xs[p[2]]) * (xs[p[1]] - xs[p[2]]) + sq[S \ {p}]
    IN  sq[pairs]

\* round(np.std(xs), 2): sqrt(PairSquares) / n to the nearest hundredth.
StdRounded(xs) == (ISqrt(4 * PairSquares(xs)) + Len(xs)) \div (2 * Len(xs))

\* Mutant: only the high-risk students are counted as at risk.
AtRiskPercentageHighOnly(risk_counts, total) ==
    IF total # 0 THEN RoundHalfEven(risk_counts["high"] * Centi(100), total) ELSE 0

\* round((high + medium) / len(self.metrics) * 100, 2) if self.metrics else 0,
\* in hundredths; total is len(self.metrics).
AtRiskPercentage(risk_counts, total) ==
    IF total # 0
    THEN RoundHalfEven((risk_counts["high"] + risk_counts["medium"]) * Centi(100), total)
    ELSE 0

Statistics(m) ==
    LET scores == Column(m, "average_score")
        attendance == Column(m, "attendance_rate")
        risk_counts == [l \in {"low", "medium", "high"} |-> CountWhere(m, "risk_level", l)]
        trend_counts ==
            [t \in {"improving", "stable", "declining"} |-> CountWhere(m, "trend", t)]
    IN  [total_students |-> Len(m),
         average_score_mean |-> IF scores # <<>> THEN MeanRounded(scores) ELSE 0,
         average_score_std |-> IF scores # <<>> THEN StdRounded(scores) ELSE 0,
         average_attendance |-> IF attendance # <<>> THEN MeanRounded(attendance) ELSE 0,
         risk_distribution |-> risk_counts,
         trend_distribution |-> trend_counts,
         at_risk_percentage |-> AtRiskPercentage(risk_counts, Len(m))]

(***************************************************************************)
(* generate_recommendations                                                *)
(***************************************************************************)
MsgNotFound == "Student not found in analyzed data."
MsgTutoring == "Consider additional tutoring sessions to improve understanding."
MsgAttendance ==
    "Attendance is below optimal. Regular attendance strongly correlates with better performance."
MsgAssignments ==
    "Focus on completing all assignments. Missing assignments significantly impact final grades."
MsgDeclining == "Performance trend is declining. Schedule a meeting to discuss challenges."
MsgHighPriority == "HIGH PRIORITY: This student needs immediate intervention."
MsgPerformingWell == "Student is performing well. Continue current study habits."

\* Mutant: the thresholds 60, 80 and 90 are inclusive.
ConditionalMessagesInclusive(sm) ==
    (IF sm.average_score <= Centi(60) THEN <<MsgTutoring>> ELSE <<>>)
      \o (IF sm.attendance_rate <= Centi(80) THEN <<MsgAttendance>> ELSE <<>>)
      \o (IF sm.assignment_completion <= Centi(90) THEN <<MsgAssignments>> ELSE <<>>)
      \o (IF sm.trend = "declining" THEN <<MsgDeclining>> ELSE <<>>)
      \o (IF sm.risk_level = "high" THEN <<MsgHighPriority>> ELSE <<>>)

\* The list after the five "if ...: recommendations.append(...)" statements.
ConditionalMessages(sm) ==
    (IF sm.average_score < Centi(60) THEN <<MsgTutoring>> ELSE <<>>)
      \o (IF sm.attendance_rate < Centi(80) THEN <<MsgAttendance>> ELSE <<>>)
      \o (IF sm.assignment_completion < Centi(90) THEN <<MsgAssignments>> ELSE <<>>)
      \o (IF sm.trend = "declining" THEN <<MsgDeclining>> ELSE <<>>)
      \o (IF sm.risk_level = "high" THEN <<MsgHighPriority>> ELSE <<>>)

\* Mutant: the praise is appended whenever the student is not high risk.
RecommendationsPraiseUnlessHigh(m, student_id) ==
    IF student_id \notin Keys(m) THEN <<MsgNotFound>>
    ELSE LET recommendations == ConditionalMessages(DictGet(m, student_id))
         IN  IF DictGet(m, student_id).risk_level # "high"
             THEN Append(recommendations, MsgPerformingWell)
             ELSE recommendations

\* Mutant: an unknown id gets the praise of a student without findings.
RecommendationsUnknownPraised(m, student_id) ==
    IF student_id \notin Keys(m) THEN <<MsgPerformingWell>>
    ELSE LET recommendations == ConditionalMessages(DictGet(m, student_id))
         IN  IF recommendations = <<>> THEN <<MsgPerformingWell>> ELSE recommendations

Recommendations(m, student_id) ==
    IF student_id \notin Keys(m) THEN <<MsgNotFound>>
    ELSE LET recommendations == ConditionalMessages(DictGet(m, student_id))
         IN  IF recommendations = <<>> THEN <<MsgPerformingWell>> ELSE recommendations

(***************************************************************************)
(* Inputs.                                                                 *)
(***************************************************************************)
\* A token of a score series: its text, whether the text denotes a number,
\* and the number (in hundredths) it denotes.
Tok(text, numeric, value) == [text |-> text, numeric |-> numeric, value |-> value]

TokenSet ==
    {Tok(<<"6", "0">>, TRUE, 6000), Tok(<<"6", "5">>, TRUE, 6500), Tok(<<" ", "7", "0">>, TRUE, 7000),
     Tok(<<"7", "1", " ">>, TRUE, 7100), Tok(<<"7", ".", "5">>, TRUE, 750), Tok(<<"-", "5">>, TRUE, -500),
     Tok(<<"x">>, FALSE, 0), Tok(<<>>, FALSE, 0)}

\* ','.join(texts)
RECURSIVE Join(_)
Join(toks) ==
    IF toks = <<>> THEN <<>>
    ELSE IF Len(toks) = 1 THEN toks[1].text
    ELSE toks[1].text \o <<",">> \o Join(Tail(toks))

\* A score series cell together with the tokens it was written from.
Series(toks) == [tokens |-> toks, cell |-> StrCell(Join(toks))]
NaNSeries == [tokens |-> <<>>, cell |-> NaNCell]

SeriesArgs ==
    {[kind |-> "series", series |-> sr] :
        sr \in {NaNSeries} \cup {Series(ts) : ts \in SeqsUpTo(TokenSet, MaxTokens)}}

RiskValues == {Centi(-10), 0, Centi(20), Centi(40), Centi(50), Centi(60), 7999,
               Centi(80), 8001, Centi(90), Centi(100), Centi(150)}

RiskArgs ==
    {[kind |-> "risk", avg_score |-> a, attendance |-> t, completion |-> c] :
        a \in RiskValues, t \in RiskValues, c \in RiskValues}

(***************************************************************************)
(* report_generator.generate_general_recommendations.  A message is the    *)
(* text of its literal and the values its f-string formats.                 *)
(***************************************************************************)
GeneralAtRiskThreshold == 30
GeneralAttendanceThreshold == 80
GeneralScoreThreshold == 70

MsgGeneralAtRisk(at_risk_percentage) ==
    [args |-> <<at_risk_percentage>>,
     text |-> "{}% of students are at risk. Consider implementing additional support programs."]
MsgGeneralAttendance ==
    [args |-> <<>>,
     text |-> "Average attendance is below 80%. Consider strategies to improve student engagement."]
MsgGeneralDeclining ==
    [args |-> <<>>,
     text |-> "More students are declining than improving. Review recent curriculum changes or teaching methods."]
MsgGeneralScore ==
    [args |-> <<>>,
     text |-> "Overall average score is below 70%. Consider reviewing assessment difficulty or providing more resources."]
MsgGeneralGood ==
    [args |-> <<>>,
     text |-> "Overall performance is good. Continue current teaching strategies."]
MsgGeneralPeerTutoring ==
    [args |-> <<>>,
     text |-> "Consider implementing peer tutoring to help struggling students."]

\* Mutant: the thresholds themselves count as findings.
GeneralFindingsInclusive(stats) ==
    (IF stats.at_risk_percentage >= Centi(GeneralAtRiskThreshold)
     THEN <<MsgGeneralAtRisk(stats.at_risk_percentage)>> ELSE <<>>)
    \o (IF stats.average_attendance <= Centi(GeneralAttendanceThreshold)
        THEN <<MsgGeneralAttendance>> ELSE <<>>)
    \o (IF stats.trend_distribution["declining"] >= stats.trend_distribution["improving"]
        THEN <<MsgGeneralDeclining>> ELSE <<>>)
    \o (IF stats.average_score_mean <= Centi(GeneralScoreThreshold)
        THEN <<MsgGeneralScore>> ELSE <<>>)

\* The list after the four ifs, before "if not recommendations".
GeneralFindings(stats) ==
    (IF stats.at_risk_percentage > Centi(GeneralAtRiskThreshold)
     THEN <<MsgGeneralAtRisk(stats.at_risk_percentage)>> ELSE <<>>)
    \o (IF stats.average_attendance < Centi(GeneralAttendanceThreshold)
        THEN <<MsgGeneralAttendance>> ELSE <<>>)
    \o (IF stats.trend_distribution["declining"] > stats.trend_distribution["improving"]
        THEN <<MsgGeneralDeclining>> ELSE <<>>)
    \o (IF stats.average_score_mean < Centi(GeneralScoreThreshold)
        THEN <<MsgGeneralScore>> ELSE <<>>)

GenerateGeneralRecommendations(stats) ==
    IF GeneralFindings(stats) = <<>> THEN <<MsgGeneralGood, MsgGeneralPeerTutoring>>
    ELSE GeneralFindings(stats)

\* The stats dicts of TestRecommendationGeneration and dicts with values on and
\* next to the thresholds.
StatsArgs ==
    {[kind |-> "stats",
      stats |-> [at_risk_percentage |-> p, average_attendance |-> t,
                 trend_distribution |-> [improving |-> td[1], stable |-> 2, declining |-> td[2]],
                 average_score_mean |-> m]] :
        p \in {Centi(5), Centi(30), 3001, Centi(45)},
        t \in {Centi(65), 7999, Centi(80), Centi(92)},
        td \in {<<10, 2>>, <<5, 3>>, <<3, 8>>, <<4, 4>>},
        m \in {Centi(60), 6999, Centi(70), Centi(82)}}

\* The sizes of the risk buckets of a cohort, and cohorts by their risk counts.
CohortCounts == {0, 1, 2, 7, 20001}

CohortArgs ==
    {[kind |-> "cohort", risk_counts |-> [low |-> l, medium |-> m, high |-> h]] :
        l \in CohortCounts, m \in CohortCounts, h \in CohortCounts}

IdSet == {IntId(1), StrId(<<"1">>), StrId(<<"S", "2">>)}

\* The series of the rows: '90,92,94', '60,48,45', ' 60, 80', 'x,80', '83.33',
\* '88,90,92', '52,50,48', '70,,80'.
Scores_90_92_94 ==
    Series(<<Tok(<<"9", "0">>, TRUE, 9000),
            Tok(<<"9", "2">>, TRUE, 9200),
            Tok(<<"9", "4">>, TRUE, 9400)>>)
Scores_60_48_45 ==
    Series(<<Tok(<<"6", "0">>, TRUE, 6000),
            Tok(<<"4", "8">>, TRUE, 4800),
            Tok(<<"4", "5">>, TRUE, 4500)>>)
Scores_60_80_Spaced ==
    Series(<<Tok(<<" ", "6", "0">>, TRUE, 6000),
            Tok(<<" ", "8", "0">>, TRUE, 8000)>>)
Scores_x_80 ==
    Series(<<Tok(<<"x">>, FALSE, 0),
            Tok(<<"8", "0">>, TRUE, 8000)>>)
Scores_83_33 ==
    Series(<<Tok(<<"8", "3", ".", "3", "3">>, TRUE, 8333)>>)
Scores_88_90_92 ==
    Series(<<Tok(<<"8", "8">>, TRUE, 8800),
            Tok(<<"9", "0">>, TRUE, 9000),
            Tok(<<"9", "2">>, TRUE, 9200)>>)
Scores_52_50_48 ==
    Series(<<Tok(<<"5", "2">>, TRUE, 5200),
            Tok(<<"5", "0">>, TRUE, 5000),
            Tok(<<"4", "8">>, TRUE, 4800)>>)
Scores_70__80 ==
    Series(<<Tok(<<"7", "0">>, TRUE, 7000),
            Tok(<<>>, FALSE, 0),
            Tok(<<"8", "0">>, TRUE, 8000)>>)

Scores_95 ==
    Series(<<Tok(<<"9", "5">>, TRUE, 9500)>>)

AssignmentSeries ==
    {NaNSeries, Series(<<>>), Scores_90_92_94, Scores_60_48_45,
     Scores_60_80_Spaced, Scores_x_80, Scores_83_33}

QuizSeries ==
    {NaNSeries, Scores_88_90_92, Scores_52_50_48, Scores_70__80}

AttendanceValues == {Centi(55), Centi(80), Centi(95)}

CompletionValues == {0, Centi(60), Centi(90), Centi(100)}

\* f without the keys in drop.
Without(f, drop) == [k \in DOMAIN f \ drop |-> f[k]]

\* Rows with every column, and rows of frames that lack columns which
\* analyze_student reads with row.get; each with the series it was written from.
RowArgs ==
    {[kind |-> "row", assignment |-> a, quiz |-> q,
      row |-> Without([student_id |-> id, assignment_scores |-> a.cell,
                       quiz_scores |-> q.cell, attendance |-> t, completion_rate |-> c],
                      drop)] :
        id \in IdSet, a \in AssignmentSeries, q \in QuizSeries, t \in AttendanceValues,
        c \in CompletionValues,
        drop \in {{}, {"completion_rate"}, {"attendance"}, {"assignment_scores", "quiz_scores"}}}

\* The rows of the frames loaded into the analyzer.
Row1 ==
    [student_id |-> IntId(1), assignment_scores |-> Scores_90_92_94.cell,
     quiz_scores |-> Scores_88_90_92.cell, attendance |-> Centi(95),
     completion_rate |-> Centi(100)]
Row2 ==
    [student_id |-> StrId(<<"1">>), assignment_scores |-> Scores_60_48_45.cell,
     quiz_scores |-> Scores_52_50_48.cell, attendance |-> Centi(55),
     completion_rate |-> Centi(60)]
Row3 ==
    [student_id |-> StrId(<<"S", "2">>), assignment_scores |-> Scores_60_80_Spaced.cell,
     quiz_scores |-> NaNSeries.cell, attendance |-> Centi(82),
     completion_rate |-> Centi(90)]

Row4 ==
    [student_id |-> StrId(<<"S", "3">>), assignment_scores |-> Scores_52_50_48.cell,
     quiz_scores |-> Scores_x_80.cell, attendance |-> Centi(55), completion_rate |-> 0]

FrameRows == {Row1, Row2, Row3, Row4}

\* The rows of the one-student frames: scores, attendance and completion below
\* and exactly at the thresholds of generate_recommendations, and the student
\* with average 95, attendance 98 and completion 100.
StudentRow(a, q, t, c) ==
    [student_id |-> StrId(<<"S", "2">>), assignment_scores |-> a.cell,
     quiz_scores |-> q.cell, attendance |-> t, completion_rate |-> c]

StudentRows ==
    {StudentRow(Scores_60_80_Spaced, Scores_52_50_48, Centi(55), Centi(60)),
     StudentRow(Scores_60_80_Spaced, Scores_52_50_48, Centi(80), Centi(90)),
     StudentRow(Scores_60_80_Spaced, Scores_88_90_92, Centi(55), Centi(90)),
     StudentRow(Scores_60_80_Spaced, Scores_88_90_92, Centi(80), Centi(60)),
     StudentRow(Scores_60_48_45, Scores_88_90_92, Centi(80), Centi(90)),
     StudentRow(Scores_60_48_45, Scores_52_50_48, Centi(80), Centi(90)),
     StudentRow(Scores_95, Scores_95, Centi(98), Centi(100))}

AllColumns == {"student_id", "assignment_scores", "quiz_scores", "attendance", "completion_rate"}

\* A DataFrame: its columns and its rows, every row over exactly those columns.
\* The frames loaded are the sequences of up to MaxRows different rows of
\* FrameRows and the frames of one row of StudentRows.
DataFrames ==
    {[columns |-> AllColumns, rows |-> rs] :
        rs \in {r \in SeqsUpTo(FrameRows, MaxRows) :
                  \A i, j \in 1..Len(r) : i # j => r[i] # r[j]}
                \cup {<<r>> : r \in StudentRows}}

\* Mutant: the name column is not required.
RequiredColumnsUnnamed == {"student_id", "assignment_scores", "attendance", "quiz_scores"}

\* required_columns of load_data.
RequiredColumns == {"student_id", "name", "assignment_scores", "attendance", "quiz_scores"}

\* The row with a name column added, and without the columns in drop.
Named(row, drop) ==
    [k \in (DOMAIN row \cup {"name"}) \ drop |-> IF k = "name" THEN "Alice" ELSE row[k]]

\* What pd.read_csv yields for a path: no file, or the frame of the file with
\* the columns its header declares.  Every header declares student_id.
NoFile == [exists |-> FALSE, frame |-> [columns |-> {}, rows |-> <<>>]]
CsvFile(columns, rows) == [exists |-> TRUE, frame |-> [columns |-> columns, rows |-> rows]]

CsvSources ==
    {NoFile,
     CsvFile(AllColumns \cup {"name"}, <<Named(Row1, {})>>),
     CsvFile(RequiredColumns, <<Named(Row3, {"completion_rate"})>>),
     CsvFile(AllColumns, <<Row2>>),
     CsvFile((AllColumns \cup {"name"}) \ {"attendance"}, <<Named(Row2, {"attendance"})>>),
     CsvFile({"student_id", "assignment_scores", "completion_rate"},
             <<Without(Row4, {"quiz_scores", "attendance"})>>)}

RiskLevels == {"low", "medium", "high"}

LookupIds == {<<"1">>, <<"S", "2">>, <<"S", "3">>, <<"U">>}

(***************************************************************************)
(* The analyzer: __init__ and its methods.                                 *)
(***************************************************************************)
Init ==
    /\ data = NoneData
    /\ metrics = <<>>
    /\ op = "__init__"
    /\ arg = <<>>
    /\ ret = Returned(<<>>)
    /\ metrics_before = <<>>

\* Mutant: loading discards the metrics of the frame loaded before.
LoadDataFromDataframeResets(df) ==
    /\ data' = Loaded(df)
    /\ op' = "load_data_from_dataframe"
    /\ arg' = df
    /\ ret' = Returned(Loaded(df))
    /\ metrics_before' = metrics
    /\ metrics' = <<>>

LoadDataFromDataframe(df) ==
    /\ data' = Loaded(df)
    /\ op' = "load_data_from_dataframe"
    /\ arg' = df
    /\ ret' = Returned(Loaded(df))
    /\ metrics_before' = metrics
    /\ UNCHANGED metrics

FileNotFound == "FileNotFoundError"

\* ValueError(f"Missing required columns: {missing_cols}"): the text and the
\* set it formats.
MissingColumns(missing_cols) ==
    [raised |-> "ValueError: Missing required columns: ", val |-> missing_cols]

\* load_data: self.data is assigned what pd.read_csv returns, and the columns
\* are checked afterwards.
LoadData(src) ==
    LET missing_cols == RequiredColumns \ src.frame.columns
    IN  /\ op' = "load_data"
        /\ arg' = src
        /\ metrics_before' = metrics
        /\ UNCHANGED metrics
        /\ IF ~src.exists
           THEN /\ ret' = Raised(FileNotFound)
                /\ UNCHANGED data
           ELSE /\ data' = Loaded(src.frame)
                /\ ret' = IF missing_cols # {} THEN MissingColumns(missing_cols)
                          ELSE Returned(data')

\* Mutant: a loaded frame without rows is refused like missing data.
AnalyzeAllStudentsRejectsEmpty ==
    /\ op' = "analyze_all_students"
    /\ arg' = <<>>
    /\ metrics_before' = metrics
    /\ IF data.is_none \/ data.rows = <<>>
       THEN /\ ret' = Raised(NoDataLoaded)
            /\ UNCHANGED <<data, metrics>>
       ELSE /\ metrics' = AnalyzedMetrics(data)
            /\ ret' = Returned(metrics')
            /\ UNCHANGED data

AnalyzeAllStudents ==
    /\ op' = "analyze_all_students"
    /\ arg' = <<>>
    /\ metrics_before' = metrics
    /\ IF data.is_none
       THEN /\ ret' = Raised(NoDataLoaded)
            /\ UNCHANGED <<data, metrics>>
       ELSE /\ metrics' = AnalyzedMetrics(data)
            /\ ret' = Returned(metrics')
            /\ UNCHANGED data

\* Mutant: unset data is treated as an empty collection.
EnsureAnalyzedSilent ==
    IF metrics # <<>> THEN [raised |-> "", metrics |-> metrics]
    ELSE IF data.is_none THEN [raised |-> "", metrics |-> <<>>]
    ELSE [raised |-> "", metrics |-> AnalyzeRows(data.rows, 1, <<>>)]

\* Mutant: empty metrics do not trigger the analysis of the loaded data.
EnsureAnalyzedNoTrigger ==
    IF metrics = <<>> /\ data.is_none THEN [raised |-> NoDataLoaded, metrics |-> metrics]
    ELSE [raised |-> "", metrics |-> metrics]

\* "if not self.metrics: self.analyze_all_students()", the common prefix of
\* get_at_risk_students and get_statistics: the exception it lets through
\* ("" when none) and self.metrics after it.
EnsureAnalyzed ==
    IF metrics # <<>> THEN [raised |-> "", metrics |-> metrics]
    ELSE IF data.is_none THEN [raised |-> NoDataLoaded, metrics |-> metrics]
    ELSE [raised |-> "", metrics |-> AnalyzedMetrics(data)]

GetAtRiskStudents(risk_level) ==
    /\ op' = "get_at_risk_students"
    /\ arg' = risk_level
    /\ metrics_before' = metrics
    /\ metrics' = EnsureAnalyzed.metrics
    /\ ret' = IF EnsureAnalyzed.raised # "" THEN Raised(EnsureAnalyzed.raised)
              ELSE Returned(FilterRisk(EnsureAnalyzed.metrics, risk_level))
    /\ UNCHANGED data

GetStatistics ==
    /\ op' = "get_statistics"
    /\ arg' = <<>>
    /\ metrics_before' = metrics
    /\ metrics' = EnsureAnalyzed.metrics
    /\ ret' = IF EnsureAnalyzed.raised # "" THEN Raised(EnsureAnalyzed.raised)
              ELSE Returned(Statistics(EnsureAnalyzed.metrics))
    /\ UNCHANGED data

\* Mutant: like the readers, it analyses the loaded data when nothing is analysed.
GenerateRecommendationsAnalyzesFirst(student_id) ==
    /\ op' = "generate_recommendations"
    /\ arg' = student_id
    /\ metrics_before' = metrics
    /\ metrics' = EnsureAnalyzed.metrics
    /\ ret' = IF EnsureAnalyzed.raised # "" THEN Raised(EnsureAnalyzed.raised)
              ELSE Returned(Recommendations(EnsureAnalyzed.metrics, student_id))
    /\ UNCHANGED data

GenerateRecommendations(student_id) ==
    /\ op' = "generate_recommendations"
    /\ arg' = student_id
    /\ metrics_before' = metrics
    /\ ret' = Returned(Recommendations(metrics, student_id))
    /\ UNCHANGED <<data, metrics>>

Next ==
    \/ \E src \in CsvSources : LoadData(src)
    \/ \E df \in DataFrames : LoadDataFromDataframe(df)
    \/ AnalyzeAllStudents
    \/ \E level \in RiskLevels : GetAtRiskStudents(level)
    \/ GetStatistics
    \/ \E id \in LookupIds : GenerateRecommendations(id)

Spec == Init /\ [][Next]_vars

(***************************************************************************)
(* The methods that read no attribute of the analyzer, each applied to an  *)
(* input drawn at the start; and the at_risk_percentage entry of           *)
(* get_statistics, computed for a cohort given by its risk counts.         *)
(***************************************************************************)
InitPure ==
    /\ data = NoneData
    /\ metrics = <<>>
    /\ op = "__init__"
    /\ arg \in SeriesArgs \cup RiskArgs \cup RowArgs \cup CohortArgs \cup StatsArgs
    /\ ret = Returned(<<>>)
    /\ metrics_before = <<>>

CallCalculateAverageScore ==
    /\ arg.kind = "series"
    /\ op' = "calculate_average_score"
    /\ ret' = Returned(CalculateAverageScore(arg.series.cell))
    /\ UNCHANGED <<data, metrics, arg, metrics_before>>

CallCalculateTrend ==
    /\ arg.kind = "series"
    /\ op' = "calculate_trend"
    /\ ret' = Returned(CalculateTrend(arg.series.cell))
    /\ UNCHANGED <<data, metrics, arg, metrics_before>>

CallDetermineRiskLevel ==
    /\ arg.kind = "risk"
    /\ op' = "determine_risk_level"
    /\ ret' = Returned(DetermineRiskLevel(arg.avg_score, arg.attendance, arg.completion))
    /\ UNCHANGED <<data, metrics, arg, metrics_before>>

CallAnalyzeStudent ==
    /\ arg.kind = "row"
    /\ op' = "analyze_student"
    /\ ret' = Returned(AnalyzeStudent(arg.row))
    /\ UNCHANGED <<data, metrics, arg, metrics_before>>

CallAtRiskPercentage ==
    /\ arg.kind = "cohort"
    /\ op' = "at_risk_percentage"
    /\ ret' = Returned(AtRiskPercentage(arg.risk_counts,
                                        arg.risk_counts["low"] + arg.risk_counts["medium"]
                                          + arg.risk_counts["high"]))
    /\ UNCHANGED <<data, metrics, arg, metrics_before>>

CallGenerateGeneralRecommendations ==
    /\ arg.kind = "stats"
    /\ op' = "generate_general_recommendations"
    /\ ret' = Returned(GenerateGeneralRecommendations(arg.stats))
    /\ UNCHANGED <<data, metrics, arg, metrics_before>>

NextPure ==
    \/ CallCalculateAverageScore
    \/ CallCalculateTrend
    \/ CallDetermineRiskLevel
    \/ CallAnalyzeStudent
    \/ CallAtRiskPercentage
    \/ CallGenerateGeneralRecommendations

SpecPure == InitPure /\ [][NextPure]_vars

(***************************************************************************)
(* Properties.                                                             *)
(***************************************************************************)
NeedData == {"analyze_all_students", "get_at_risk_students", "get_statistics"}

\* C1: while no data has been loaded, analyze_all_students, get_at_risk_students
\* and get_statistics each raise ValueError "No data loaded" and return nothing;
\* the metrics stay empty.
C1_NoDataLoadedRaises ==
    (data.is_none /\ op \in NeedData) => (ret = Raised(NoDataLoaded) /\ metrics = <<>>)

C1_Witness ==
    data.is_none /\ op = "get_at_risk_students" /\ ret = Raised(NoDataLoaded)

\* The weighted deficiency of a triple of hundredths, in thousandths:
\* (100 - avg) * 0.4 + (100 - attendance) * 0.3 + (100 - completion) * 0.3.
WeightedRisk(a) ==
    4 * (10000 - a.avg_score) + 3 * (10000 - a.attendance) + 3 * (10000 - a.completion)

\* C2: determine_risk_level returns 'high' iff risk >= 40, 'medium' iff
\* 20 <= risk < 40 and 'low' iff risk < 20, risk being the weighted deficiency.
C2_RiskThresholds ==
    (op = "determine_risk_level") =>
        /\ ret.raised = ""
        /\ ret.val = "high" <=> WeightedRisk(arg) >= 40000
        /\ ret.val = "medium" <=> (20000 <= WeightedRisk(arg) /\ WeightedRisk(arg) < 40000)
        /\ ret.val = "low" <=> WeightedRisk(arg) < 20000

\* determine_risk_level(80, 80, 80), a risk of exactly 20, is 'medium'.
C2_Witness ==
    /\ op = "determine_risk_level"
    /\ arg.avg_score = 8000 /\ arg.attendance = 8000 /\ arg.completion = 8000
    /\ ret.val = "medium"

\* The numbers a series' tokens denote, when every token denotes one.
AllNumeric(sr) == ~sr.cell.isna /\ \A i \in 1..Len(sr.tokens) : sr.tokens[i].numeric
Values(sr) == [i \in 1..Len(sr.tokens) |-> sr.tokens[i].value]

\* mean(xs[lo..hi]) - mean(xs[1..lo-1]) compared with d hundredths, as the sign
\* of the cross-multiplied difference: -1, 0 or 1.
HalvesDelta(xs, lo, d) ==
    LET n1 == lo - 1
        n2 == Len(xs) - n1
        s1 == SumSeq(SubSeq(xs, 1, n1))
        s2 == SumSeq(SubSeq(xs, lo, Len(xs)))
        lhs == s2 * n1 - s1 * n2
        rhs == d * n1 * n2
    IN  IF lhs > rhs THEN 1 ELSE IF lhs < rhs THEN -1 ELSE 0

\* C3: on a series of n >= 2 numbers calculate_trend compares the mean of the
\* elements from n // 2 on with the mean of those before: 'improving' iff the
\* difference exceeds 5, 'declining' iff it is below -5, 'stable' otherwise.
C3_TrendHalves ==
    (op = "calculate_trend" /\ AllNumeric(arg.series) /\ Len(arg.series.tokens) >= 2) =>
        LET xs == Values(arg.series)
            lo == (Len(xs) \div 2) + 1
        IN  /\ ret.raised = ""
            /\ ret.val = "improving" <=> HalvesDelta(xs, lo, 500) = 1
            /\ ret.val = "declining" <=> HalvesDelta(xs, lo, -500) = -1
            /\ ret.val = "stable" <=>
                   (HalvesDelta(xs, lo, 500) # 1 /\ HalvesDelta(xs, lo, -500) # -1)

\* An odd-length series whose difference is exactly 5 is 'stable'.
C3_Witness ==
    /\ op = "calculate_trend" /\ AllNumeric(arg.series) /\ Len(arg.series.tokens) = 3
    /\ HalvesDelta(Values(arg.series), 2, 500) = 0
    /\ ret.val = "stable"

\* C4: on a series of numeric tokens calculate_average_score returns the
\* hundredth nearest to the arithmetic mean of the numbers; a single token
\* gives its own value.
C4_AverageIsRoundedMean ==
    (op = "calculate_average_score" /\ AllNumeric(arg.series)
        /\ Len(arg.series.tokens) >= 1) =>
        LET xs == Values(arg.series)
            n == Len(xs)
        IN  /\ ret.raised = ""
            /\ 2 * Abs(n * ret.val - SumSeq(xs)) <= n
            /\ n = 1 => ret.val = xs[1]

\* A series with whitespace around a token whose mean is not a whole hundredth.
C4_Witness ==
    /\ op = "calculate_average_score" /\ AllNumeric(arg.series)
    /\ Len(arg.series.tokens) = 3
    /\ \E i \in 1..3 : Len(arg.series.tokens[i].text) > 2
    /\ SumSeq(Values(arg.series)) % 3 # 0
    /\ 2 * Abs(3 * ret.val - SumSeq(Values(arg.series))) <= 3

\* A series that is missing, empty, or has a token that is not a number.
Unparseable(sr) ==
    sr.cell.isna \/ sr.cell.str = <<>> \/ \E i \in 1..Len(sr.tokens) : ~sr.tokens[i].numeric

\* The series a row gives analyze_student under key: '' when the row has no such column.
RowSeries(a, key, sr) == IF key \in DOMAIN a.row THEN sr ELSE Series(<<>>)

\* C5: calculate_average_score returns 0.0, without raising, on a missing or
\* empty series and on a series with a token that is not a number; so a
\* student's average_score is always a number, and 0.0 when neither series parses.
C5_UnparseableAveragesZero ==
    /\ (op = "calculate_average_score" /\ Unparseable(arg.series)) => ret = Returned(0)
    /\ (op = "analyze_student") =>
          /\ ret.raised = ""
          /\ ret.val.average_score \in Int
          /\ (/\ Unparseable(RowSeries(arg, "assignment_scores", arg.assignment))
              /\ Unparseable(RowSeries(arg, "quiz_scores", arg.quiz)))
                => ret.val.average_score = 0

\* A series ending in a comma, its other tokens numbers.
C5_Witness ==
    /\ op = "calculate_average_score"
    /\ Len(arg.series.tokens) = 3
    /\ arg.series.tokens[1].numeric /\ arg.series.tokens[2].numeric
    /\ arg.series.tokens[3].text = <<>>
    /\ ret = Returned(0)

\* C6: calculate_trend returns 'stable', without raising, on a missing or empty
\* series, on a series with a token that is not a number, and on fewer than 2 numbers.
C6_UnparseableTrendStable ==
    (op = "calculate_trend" /\ (Unparseable(arg.series) \/ Len(arg.series.tokens) < 2))
        => ret = Returned("stable")

\* Numbers 10 apart around a token that is not a number.
C6_Witness ==
    /\ op = "calculate_trend"
    /\ Len(arg.series.tokens) = 3
    /\ arg.series.tokens[1].value = 6000 /\ arg.series.tokens[3].value = 7000
    /\ ~arg.series.tokens[2].numeric
    /\ ret = Returned("stable")

\* The risk level of a triple of hundredths by the thresholds 40 and 20.
LevelOf(a) ==
    IF WeightedRisk(a) >= 40000 THEN "high"
    ELSE IF WeightedRisk(a) >= 20000 THEN "medium" ELSE "low"

IsExampleRow(r) ==
    /\ DOMAIN r = AllColumns
    /\ r.assignment_scores = Scores_90_92_94.cell
    /\ r.quiz_scores = Scores_88_90_92.cell
    /\ r.attendance = 9500 /\ r.completion_rate = 10000

\* C7: analyze_student returns average_score = round((average of assignments +
\* average of quizzes) / 2, 2), trend = calculate_trend(assignments), risk_level =
\* determine_risk_level(average_score, attendance, completion), the id as a str
\* and the attendance unchanged; '90,92,94', '88,90,92', 95, 100 gives 91.0,
\* stable, low.
C7_AnalyzeStudentComposition ==
    (op = "analyze_student") =>
        LET r == arg.row
            m == ret.val
            a == CalculateAverageScore(RowSeries(arg, "assignment_scores", arg.assignment).cell)
            q == CalculateAverageScore(RowSeries(arg, "quiz_scores", arg.quiz).cell)
        IN  /\ Abs(2 * m.average_score - (a + q)) <= 1
            /\ m.trend = CalculateTrend(RowSeries(arg, "assignment_scores", arg.assignment).cell)
            /\ m.risk_level = LevelOf([avg_score |-> m.average_score,
                                       attendance |-> m.attendance_rate,
                                       completion |-> m.assignment_completion])
            /\ m.student_id = (IF r.student_id.kind = "int" THEN <<"1">> ELSE r.student_id.str)
            /\ "attendance" \in DOMAIN r => m.attendance_rate = r.attendance
            /\ IsExampleRow(r) =>
                  (m.average_score = 9100 /\ m.trend = "stable" /\ m.risk_level = "low")

\* A row whose assignments decline while its quizzes are stable.
C7_Witness ==
    /\ op = "analyze_student"
    /\ DOMAIN arg.row = AllColumns
    /\ arg.row.student_id = IntId(1)
    /\ arg.assignment = Scores_60_48_45 /\ arg.quiz = Scores_52_50_48
    /\ ret.val.trend = "declining" /\ ret.val.student_id = <<"1">>
    /\ ret.val.average_score = 5050

\* C8: assignment_completion is the row's completion_rate whenever the row
\* has one, 0 included, and 100 otherwise; it is 100 iff the column is absent or
\* holds 100; the risk level is computed from that value.
C8_CompletionDefault ==
    (op = "analyze_student") =>
        LET r == arg.row
            m == ret.val
            has == "completion_rate" \in DOMAIN r
            used == IF has THEN r.completion_rate ELSE 10000
        IN  /\ m.assignment_completion = used
            /\ m.assignment_completion = 10000 <=> (~has \/ r.completion_rate = 10000)
            /\ m.risk_level = LevelOf([avg_score |-> m.average_score,
                                       attendance |-> m.attendance_rate,
                                       completion |-> used])

\* An explicit completion_rate of 0 that makes a student high risk who would
\* be low risk with a completion of 100.
C8_Witness ==
    /\ op = "analyze_student"
    /\ "completion_rate" \in DOMAIN arg.row /\ arg.row.completion_rate = 0
    /\ ret.val.assignment_completion = 0
    /\ ret.val.risk_level # "low"
    /\ LevelOf([avg_score |-> ret.val.average_score,
                attendance |-> ret.val.attendance_rate, completion |-> 10000]) = "low"

\* The stringified ids of the loaded rows, and the last row carrying an id.
LoadedIds == {PyStr(data.rows[i].student_id) : i \in 1..Len(data.rows)}
RowsWithId(id) == {i \in 1..Len(data.rows) : PyStr(data.rows[i].student_id) = id}
LastRowWithId(id) == data.rows[CHOOSE i \in RowsWithId(id) : \A j \in RowsWithId(id) : j <= i]
FirstIndexOfId(id) == CHOOSE i \in RowsWithId(id) : \A j \in RowsWithId(id) : i <= j

\* C9: after analyze_all_students the metrics hold exactly one entry per
\* distinct stringified id of the loaded rows, and the entry of an id is
\* analyze_student of the last row carrying that id.
C9_AnalyzeAllLastWriteWins ==
    (op = "analyze_all_students" /\ ret.raised = "") =>
        /\ ret.val = metrics
        /\ Keys(metrics) = LoadedIds
        /\ Len(metrics) = Cardinality(LoadedIds)
        /\ \A i \in 1..Len(metrics) :
              metrics[i] = AnalyzeStudent(LastRowWithId(metrics[i].student_id))

\* A frame in which the ids 1 and '1' collide: the one entry is that of the
\* later row.
C9_Witness ==
    /\ op = "analyze_all_students" /\ ret.raised = ""
    /\ data.rows = <<Row1, Row2>>
    /\ Len(metrics) = 1
    /\ metrics[1] = AnalyzeStudent(Row2)

\* The positions of the metrics with a risk level, and the k-th smallest of them.
AtLevel(level) == {i \in 1..Len(metrics) : metrics[i].risk_level = level}
KthAtLevel(level, k) ==
    CHOOSE i \in AtLevel(level) : Cardinality({j \in AtLevel(level) : j <= i}) = k

\* C10: get_at_risk_students(level) returns the metrics with that risk level,
\* all of them and no other, in the order of the metrics dict; after
\* analyze_all_students that order is the order in which the ids first occur in
\* the loaded rows.
C10_FilterByRisk ==
    /\ (op = "get_at_risk_students" /\ ret.raised = "") =>
          /\ Len(ret.val) = Cardinality(AtLevel(arg))
          /\ \A k \in 1..Len(ret.val) : ret.val[k] = metrics[KthAtLevel(arg, k)]
    /\ (op = "analyze_all_students" /\ ret.raised = "") =>
          \A i, j \in 1..Len(metrics) :
              i < j => FirstIndexOfId(metrics[i].student_id)
                         < FirstIndexOfId(metrics[j].student_id)

\* Two high-risk students returned in dict order, the first of them analysed
\* from a later row than the second.
C10_Witness ==
    /\ op = "get_at_risk_students" /\ arg = "high"
    /\ metrics = <<AnalyzeStudent(Row2), AnalyzeStudent(Row4)>>
    /\ ret.val = metrics
    /\ data.rows = <<Row1, Row4, Row2>>

Readers == {"get_at_risk_students", "get_statistics"}

\* C11: with data loaded and nothing analysed when the call begins,
\* get_at_risk_students and get_statistics run analyze_all_students first: they
\* return what they return on the metrics of an explicit analyze_all_students,
\* and leave self.metrics holding those metrics, one entry per loaded id.
C11_ReadersAnalyzeFirst ==
    (op \in Readers /\ ~data.is_none /\ metrics_before = <<>>) =>
        /\ ret.raised = ""
        /\ metrics = AnalyzedMetrics(data)
        /\ Keys(metrics) = LoadedIds
        /\ op = "get_statistics" => ret.val = Statistics(AnalyzedMetrics(data))
        /\ op = "get_at_risk_students" => ret.val = FilterRisk(AnalyzedMetrics(data), arg)

\* get_statistics as the first call after loading three rows with two ids.
C11_Witness ==
    /\ op = "get_statistics" /\ metrics_before = <<>>
    /\ data.rows = <<Row1, Row4, Row2>>
    /\ Len(metrics) = 2
    /\ ret.val.total_students = 2

EmptyLoaded == ~data.is_none /\ data.rows = <<>>

\* C12: on a loaded frame without rows analyze_all_students returns an empty
\* dict without raising, and get_statistics on those empty metrics returns,
\* without raising, total_students 0, every risk and trend count 0, mean, std
\* and attendance 0 and at_risk_percentage 0.
C12_EmptyFrame ==
    /\ (op = "analyze_all_students" /\ EmptyLoaded) =>
          (ret = Returned(<<>>) /\ metrics = <<>>)
    /\ (op = "get_statistics" /\ EmptyLoaded /\ metrics_before = <<>>) =>
          /\ ret.raised = ""
          /\ ret.val.total_students = 0
          /\ \A l \in {"low", "medium", "high"} : ret.val.risk_distribution[l] = 0
          /\ \A t \in {"improving", "stable", "declining"} : ret.val.trend_distribution[t] = 0
          /\ ret.val.average_score_mean = 0
          /\ ret.val.average_score_std = 0
          /\ ret.val.average_attendance = 0
          /\ ret.val.at_risk_percentage = 0
          /\ metrics = <<>>

\* get_statistics on an empty frame whose metrics were empty.
C12_Witness ==
    /\ op = "get_statistics" /\ EmptyLoaded /\ metrics_before = <<>>
    /\ ret.raised = "" /\ ret.val.total_students = 0

Trends == {"improving", "stable", "declining"}
WithTrend(trend) == {i \in 1..Len(metrics) : metrics[i].trend = trend}

\* C13: in the dict get_statistics returns, total_students is the number of
\* entries (ids) of the metrics dict, risk_distribution[level] is the number of
\* metrics with that risk level, which is the length of
\* get_at_risk_students(level), trend_distribution[label] is the number of
\* metrics with that trend, and each distribution sums to total_students.
C13_Distributions ==
    (op = "get_statistics" /\ ret.raised = "") =>
        LET st == ret.val
        IN  /\ st.total_students = Len(metrics)
            /\ st.total_students = Cardinality(Keys(metrics))
            /\ DOMAIN st.risk_distribution = RiskLevels
            /\ DOMAIN st.trend_distribution = Trends
            /\ \A l \in RiskLevels :
                  /\ st.risk_distribution[l] = Cardinality(AtLevel(l))
                  /\ st.risk_distribution[l] = Len(FilterRisk(metrics, l))
            /\ \A t \in Trends : st.trend_distribution[t] = Cardinality(WithTrend(t))
            /\ st.risk_distribution["low"] + st.risk_distribution["medium"]
                  + st.risk_distribution["high"] = st.total_students
            /\ st.trend_distribution["improving"] + st.trend_distribution["stable"]
                  + st.trend_distribution["declining"] = st.total_students

\* Three students, two of them high risk and one medium, one of each trend.
C13_Witness ==
    /\ op = "get_statistics" /\ ret.raised = ""
    /\ ret.val.total_students = 3
    /\ ret.val.risk_distribution["high"] = 2
    /\ ret.val.risk_distribution["medium"] = 1
    /\ ret.val.trend_distribution["stable"] = 1
    /\ Len(FilterRisk(metrics, "high")) = 2

\* The medium-or-high count and the size of a cohort given by its risk counts.
AtRiskCount(a) == a.risk_counts["medium"] + a.risk_counts["high"]
CohortSize(a) == a.risk_counts["low"] + a.risk_counts["medium"] + a.risk_counts["high"]

\* v hundredths is (medium + high) / total * 100 rounded to 2 decimals.
IsRoundedPercentage(v, a) ==
    2 * Abs(CohortSize(a) * v - AtRiskCount(a) * 10000) <= CohortSize(a)

\* C14 as claimed: at_risk_percentage is (medium + high) / total * 100 rounded
\* to 2 decimals, 0 for an empty cohort, within [0, 100], and 0 exactly when
\* every student is low risk or the cohort is empty.
C14_ZeroIffAllLow ==
    (op = "at_risk_percentage") =>
        /\ ret.raised = ""
        /\ CohortSize(arg) > 0 => IsRoundedPercentage(ret.val, arg)
        /\ CohortSize(arg) = 0 => ret.val = 0
        /\ 0 <= ret.val /\ ret.val <= 10000
        /\ ret.val = 0 <=> AtRiskCount(arg) = 0

\* C14, amended: at_risk_percentage is (medium + high) / total * 100 rounded to
\* 2 decimals, 0 for an empty cohort, within [0, 100]; it is 0 whenever every
\* student is low risk or the cohort is empty, and a value of 0 means only
\* that the at-risk share is at most 0.005 percent.
C14_AtRiskPercentage ==
    (op = "at_risk_percentage") =>
        /\ ret.raised = ""
        /\ CohortSize(arg) > 0 => IsRoundedPercentage(ret.val, arg)
        /\ CohortSize(arg) = 0 => ret.val = 0
        /\ 0 <= ret.val /\ ret.val <= 10000
        /\ AtRiskCount(arg) = 0 => ret.val = 0
        /\ ret.val = 0 => AtRiskCount(arg) * 20000 <= CohortSize(arg)

\* One medium-risk student among 20002 students: the percentage is 0.0.
C14_Witness ==
    /\ op = "at_risk_percentage"
    /\ arg.risk_counts = [low |-> 20001, medium |-> 1, high |-> 0]
    /\ ret = Returned(0)

\* The five conditional messages in the order of their if statements, and
\* whether the k-th condition holds of a StudentMetrics.
FiveMessages == <<MsgTutoring, MsgAttendance, MsgAssignments, MsgDeclining, MsgHighPriority>>
ConditionHolds(sm, k) ==
    CASE k = 1 -> sm.average_score < 6000
      [] k = 2 -> sm.attendance_rate < 8000
      [] k = 3 -> sm.assignment_completion < 9000
      [] k = 4 -> sm.trend = "declining"
      [] k = 5 -> sm.risk_level = "high"

Contains(list, msg) == \E i \in 1..Len(list) : list[i] = msg
PlaceOf(msg) == CHOOSE k \in 1..5 : FiveMessages[k] = msg

\* The metrics of the id of the last generate_recommendations call.
Asked == metrics[CHOOSE i \in 1..Len(metrics) : metrics[i].student_id = arg]
KnownId == op = "generate_recommendations" /\ arg \in Keys(metrics)

\* C15: for a known id generate_recommendations lists the k-th of the five
\* messages iff the k-th condition holds (average_score < 60, attendance_rate <
\* 80, assignment_completion < 90, trend declining, risk_level high), each at
\* most once and in that order; exactly 60, 80 or 90 triggers nothing.
C15_FiveConditions ==
    KnownId =>
        /\ ret.raised = ""
        /\ \A k \in 1..5 : Contains(ret.val, FiveMessages[k]) <=> ConditionHolds(Asked, k)
        /\ \A i, j \in 1..Len(ret.val) :
              (i < j /\ ret.val[i] # MsgPerformingWell) =>
                  /\ Contains(FiveMessages, ret.val[i]) /\ Contains(FiveMessages, ret.val[j])
                  /\ PlaceOf(ret.val[i]) < PlaceOf(ret.val[j])
        /\ Asked.average_score = 6000 => ~Contains(ret.val, MsgTutoring)
        /\ Asked.attendance_rate = 8000 => ~Contains(ret.val, MsgAttendance)
        /\ Asked.assignment_completion = 9000 => ~Contains(ret.val, MsgAssignments)

\* A high-risk student with an average of exactly 60: attendance, assignments
\* and intervention, no tutoring.
C15_Witness ==
    /\ KnownId
    /\ Asked.average_score = 6000 /\ Asked.attendance_rate = 5500
    /\ Asked.assignment_completion = 6000
    /\ ret.val = <<MsgAttendance, MsgAssignments, MsgHighPriority>>

\* C16: for a known id the list is never empty; it holds the praise iff none
\* of the five conditions holds, and then nothing else; average 95, attendance
\* 98, completion 100, stable, low risk gets exactly the praise.
C16_PraiseIffNoFinding ==
    KnownId =>
        /\ ret.raised = ""
        /\ Len(ret.val) >= 1
        /\ Contains(ret.val, MsgPerformingWell) <=> (\A k \in 1..5 : ~ConditionHolds(Asked, k))
        /\ Contains(ret.val, MsgPerformingWell) => ret.val = <<MsgPerformingWell>>
        /\ ~(Contains(ret.val, MsgPerformingWell)
               /\ \E k \in 1..5 : Contains(ret.val, FiveMessages[k]))
        /\ (/\ Asked.average_score = 9500 /\ Asked.attendance_rate = 9800
            /\ Asked.assignment_completion = 10000 /\ Asked.trend = "stable"
            /\ Asked.risk_level = "low") => ret.val = <<MsgPerformingWell>>

\* The student with average 95, attendance 98 and completion 100.
C16_Witness ==
    /\ KnownId
    /\ Asked.average_score = 9500 /\ Asked.attendance_rate = 9800
    /\ Asked.assignment_completion = 10000 /\ Asked.trend = "stable"
    /\ Asked.risk_level = "low"
    /\ ret.val = <<MsgPerformingWell>>

\* C17: for an id that is not a key of the metrics dict
\* generate_recommendations returns the one-element list with the 'not found'
\* message and raises nothing.
C17_UnknownId ==
    (op = "generate_recommendations" /\ arg \notin Keys(metrics)) =>
        ret = Returned(<<MsgNotFound>>)

\* An id no analysed student has, asked while three students are analysed.
C17_Witness ==
    /\ op = "generate_recommendations" /\ arg = <<"U">>
    /\ Len(metrics) = 3
    /\ ret = Returned(<<MsgNotFound>>)

\* C18: analyze_all_students called again right after analyze_all_students, on
\* the same loaded data, returns and stores the same dict: the same ids in the
\* same order with the same metrics, so get_at_risk_students and
\* get_statistics give the same results after either call.
C18_AnalyzeAllIdempotent ==
    [][(op = "analyze_all_students" /\ ret.raised = "" /\ op' = "analyze_all_students") =>
          /\ data' = data
          /\ ret' = ret
          /\ metrics' = metrics
          /\ Len(metrics') = Len(metrics)
          /\ \A i \in 1..Len(metrics) : metrics'[i] = metrics[i]
          /\ \A l \in RiskLevels : FilterRisk(metrics', l) = FilterRisk(metrics, l)
          /\ Statistics(metrics') = Statistics(metrics)]_vars

\* The state after a second analysis of three rows with two ids: the dict is
\* the one the call found.
C18_Witness ==
    /\ op = "analyze_all_students" /\ ret.raised = ""
    /\ data.rows = <<Row1, Row4, Row2>>
    /\ metrics_before = metrics
    /\ Len(metrics) = 2

\* A triple with a value below 0 or above 100, and the triple of three equal values.
OutOfRange(a) ==
    \E x \in {a.avg_score, a.attendance, a.completion} : x < 0 \/ x > 10000
AllEqual(a, x) == a.avg_score = x /\ a.attendance = x /\ a.completion = x

\* C19: determine_risk_level neither rejects nor clamps: for every triple,
\* values below 0 and above 100 included, it returns the level of the weighted
\* deficiency of the values as given, never raising; (150, 150, 150) has a
\* negative risk and is 'low', (-10, -10, -10) gets a level too.
C19_NoClamping ==
    (op = "determine_risk_level") =>
        /\ ret.raised = ""
        /\ ret.val \in RiskLevels
        /\ ret.val = LevelOf(arg)
        /\ AllEqual(arg, 15000) => (WeightedRisk(arg) < 0 /\ ret.val = "low")
        /\ AllEqual(arg, -1000) => ret.val = "high"

\* determine_risk_level(150, 0, 50): a risk of 25, 'medium'; clamping the
\* average to 100 would make it 45.
C19_Witness ==
    /\ op = "determine_risk_level" /\ OutOfRange(arg)
    /\ arg.avg_score = 15000 /\ arg.attendance = 0 /\ arg.completion = 5000
    /\ WeightedRisk(arg) = 25000
    /\ ret.val = "medium"

StrictlyIncreasing(xs) == \A i \in 1..(Len(xs) - 1) : xs[i] < xs[i + 1]
Reverse(seq) == [i \in 1..Len(seq) |-> seq[Len(seq) + 1 - i]]

\* A strictly increasing series of n >= 2 numbers whose second half (from
\* n // 2 on) has a mean more than 5 above that of its first half.
RisingByMoreThan5(sr) ==
    /\ AllNumeric(sr) /\ Len(sr.tokens) >= 2
    /\ StrictlyIncreasing(Values(sr))
    /\ HalvesDelta(Values(sr), (Len(sr.tokens) \div 2) + 1, 500) = 1

\* calculate_trend of the series written from the same tokens in reverse order.
TrendReversed(sr) == CalculateTrend(Series(Reverse(sr.tokens)).cell)

\* C21 as claimed: on such a series calculate_trend returns 'improving', and
\* on the reversed series 'declining'.
C21_ReversedDeclining ==
    (op = "calculate_trend" /\ RisingByMoreThan5(arg.series)) =>
        (ret.val = "improving" /\ TrendReversed(arg.series) = "declining")

\* C21, amended: on such a series calculate_trend returns 'improving'; on the
\* reversed series it returns 'declining' when the length is even, and
\* 'declining' or 'stable', never 'improving', when the length is odd.
C21_RisingImproves ==
    (op = "calculate_trend" /\ RisingByMoreThan5(arg.series)) =>
        /\ ret = Returned("improving")
        /\ TrendReversed(arg.series) \in {"declining", "stable"}
        /\ Len(arg.series.tokens) % 2 = 0 => TrendReversed(arg.series) = "declining"

\* '65, 70,71 ' is 'improving' (70.5 against 65) and its reverse is 'stable'
\* (67.5 against 71).
C21_Witness ==
    /\ op = "calculate_trend" /\ RisingByMoreThan5(arg.series)
    /\ Values(arg.series) = <<6500, 7000, 7100>>
    /\ ret.val = "improving"
    /\ TrendReversed(arg.series) = "stable"

\* The fields spec'd as required of a record source, and those together with
\* the name column.
FourFields == {"student_id", "assignment_scores", "quiz_scores", "attendance"}
FourFieldsAndName == FourFields \cup {"name"}

ReadFile == op = "load_data" /\ arg.exists

\* C22 as claimed: load_data of a file fails with the missing-columns error
\* exactly when one of student_id, assignment_scores, quiz_scores, attendance is
\* not among the declared columns, the error names exactly the absent ones of
\* these, and a file declaring all four is accepted and becomes the data.
C22_FourFieldsRequired ==
    ReadFile =>
        IF FourFields \ arg.frame.columns # {}
        THEN ret = MissingColumns(FourFields \ arg.frame.columns)
        ELSE ret = Returned(Loaded(arg.frame)) /\ data = Loaded(arg.frame)

\* C22, amended: load_data of a file fails with the missing-columns error
\* exactly when one of student_id, name, assignment_scores, quiz_scores,
\* attendance is not among the declared columns, and the error names exactly the
\* absent ones of these five; a file declaring all five (completion_rate being
\* optional) is accepted: the call returns its frame, which becomes the data.
C22_FiveFieldsRequired ==
    ReadFile =>
        IF FourFieldsAndName \ arg.frame.columns # {}
        THEN ret = MissingColumns(FourFieldsAndName \ arg.frame.columns)
        ELSE ret = Returned(Loaded(arg.frame)) /\ data = Loaded(arg.frame)

C22_Witness ==
    /\ ReadFile
    /\ FourFields \subseteq arg.frame.columns
    /\ ret = MissingColumns({"name"})

\* C25: a load_data call that fails with the missing-columns error leaves the
\* data as it was before the call.
C25_FailedLoadKeepsData ==
    [][(op' = "load_data" /\ ret'.raised = MissingColumns({}).raised) => data' = data]_vars

\* The k-th condition of generate_general_recommendations and its message.
GeneralCondition(k, stats) ==
    CASE k = 1 -> stats.at_risk_percentage > 3000
      [] k = 2 -> stats.average_attendance < 8000
      [] k = 3 -> stats.trend_distribution["declining"] > stats.trend_distribution["improving"]
      [] k = 4 -> stats.average_score_mean < 7000

GeneralMessage(k, stats) ==
    CASE k = 1 -> MsgGeneralAtRisk(stats.at_risk_percentage)
      [] k = 2 -> MsgGeneralAttendance
      [] k = 3 -> MsgGeneralDeclining
      [] k = 4 -> MsgGeneralScore

GeneralDefaults == <<MsgGeneralGood, MsgGeneralPeerTutoring>>

AskedGeneral == op = "generate_general_recommendations"

\* C23: generate_general_recommendations returns, without raising, a list that
\* holds the message of each of the four conditions (at-risk percentage > 30,
\* average attendance < 80, declining > improving, mean score < 70) iff the
\* condition holds, once, and in that order; if no condition holds it is
\* exactly the two default messages; it is never empty, and a default message
\* never stands next to a conditional one.
C23_GeneralRecommendations ==
    AskedGeneral =>
        LET held == {k \in 1..4 : GeneralCondition(k, arg.stats)}
            place(k) == Cardinality({j \in held : j <= k})
        IN  /\ ret.raised = ""
            /\ ret.val # <<>>
            /\ held = {} => ret.val = GeneralDefaults
            /\ held # {} =>
                  /\ Len(ret.val) = Cardinality(held)
                  /\ \A k \in held : ret.val[place(k)] = GeneralMessage(k, arg.stats)
                  /\ \A i \in 1..Len(ret.val) :
                        ret.val[i] \notin {MsgGeneralGood, MsgGeneralPeerTutoring}

C23_Witness ==
    /\ AskedGeneral
    /\ arg.stats.at_risk_percentage = 3001
    /\ arg.stats.average_attendance = 8000
    /\ arg.stats.average_score_mean = 6999
    /\ ret.val = <<MsgGeneralAtRisk(3001), MsgGeneralScore>>

Loaders == {"load_data", "load_data_from_dataframe"}

\* C24: load_data and load_data_from_dataframe leave the metrics as they
\* were; and while the metrics are not empty, get_at_risk_students,
\* get_statistics and generate_recommendations answer from them as they are,
\* without analysing the frame loaded since.
C24_LoadKeepsMetrics ==
    /\ op \in Loaders => metrics = metrics_before
    /\ (op \in Readers \cup {"generate_recommendations"} /\ metrics_before # <<>>) =>
          /\ metrics = metrics_before
          /\ op = "get_at_risk_students" => ret = Returned(FilterRisk(metrics_before, arg))
          /\ op = "get_statistics" => ret = Returned(Statistics(metrics_before))
          /\ op = "generate_recommendations" =>
                ret = Returned(Recommendations(metrics_before, arg))

C24_Witness ==
    /\ op = "get_statistics"
    /\ data.rows = <<Row1>>
    /\ metrics = <<AnalyzeStudent(Row2)>>
    /\ ret.val = Statistics(<<AnalyzeStudent(Row2)>>)
    /\ ret.val # Statistics(AnalyzedMetrics(data))

\* C26: generate_recommendations changes neither the data nor the metrics and
\* raises nothing, with or without data loaded; for an id without an entry in
\* the metrics when it is called (nothing loaded, or loaded and not analysed,
\* the id being among the loaded rows or not) it returns the one 'not found'
\* message.
C26_RecommendReadOnly ==
    [][op' = "generate_recommendations" =>
          /\ data' = data
          /\ metrics' = metrics
          /\ ret'.raised = ""
          /\ arg' \notin Keys(metrics) => ret'.val = <<MsgNotFound>>]_vars

\* Asked for the id of a loaded row before any analysis.
C26_Witness ==
    /\ op = "generate_recommendations"
    /\ ~data.is_none /\ arg \in LoadedIds
    /\ metrics = <<>>
    /\ ret = Returned(<<MsgNotFound>>)

\* One of the three findings generate_recommendations reports on the numbers.
BelowSome(avg_score, attendance, completion) ==
    avg_score < 6000 \/ attendance < 8000 \/ completion < 9000

FirstPlace(list, msg) == CHOOSE i \in 1..Len(list) : list[i] = msg

\* C27: determine_risk_level returns 'high' only for numbers (in or out of
\* range) with average < 60, attendance < 80 or completion < 90, and so do the
\* metrics analyze_student returns; in the recommendations for such metrics
\* the high-priority message comes after the tutoring, attendance or
\* missing-assignments message, never without one of them, and the praise
\* goes to low or medium risk only.
C27_HighRiskHasFinding ==
    /\ (op = "determine_risk_level" /\ ret.val = "high") =>
          BelowSome(arg.avg_score, arg.attendance, arg.completion)
    /\ op = "analyze_student" =>
          LET sm == ret.val
              recs == Recommendations(<<sm>>, sm.student_id)
          IN  /\ sm.risk_level = "high" =>
                    BelowSome(sm.average_score, sm.attendance_rate, sm.assignment_completion)
              /\ Contains(recs, MsgHighPriority) =>
                    \E msg \in {MsgTutoring, MsgAttendance, MsgAssignments} :
                        /\ Contains(recs, msg)
                        /\ FirstPlace(recs, msg) < FirstPlace(recs, MsgHighPriority)
              /\ Contains(recs, MsgPerformingWell) => sm.risk_level \in {"low", "medium"}

\* A high-risk student whose only finding on the numbers is the completion.
C27_Witness ==
    /\ op = "analyze_student"
    /\ ret.val.risk_level = "high"
    /\ ret.val.average_score >= 6000 /\ ret.val.attendance_rate >= 8000
    /\ Recommendations(<<ret.val>>, ret.val.student_id) = <<MsgAssignments, MsgHighPriority>>

====
